---- MODULE Spec2Model ----
(***************************************************************************)
(* Model of intonation.py: an adaptive pitch-discrimination ear trainer.   *)
(*                                                                         *)
(* A training session (main, with --calib off) loads the statistics log,   *)
(* then loops: play f1, play f2, read a key.  "up"/"down" logs one row and *)
(* moves the staircase level, "left" replays the pair, "esc" leaves the    *)
(* loop, shows the report and saves the log with numpy.                    *)
(*                                                                         *)
(* Representation of numbers.  A frequency f is held as its pitch in cents *)
(* above FMIN, p = 1200 * log2(f / FMIN), so that the code's               *)
(*     f2 = f1 * 2 ** (diff / 1200 * direction)   is   p2 = p1 + dir*diff  *)
(*     (f1 * f2) ** 0.5                           is   (p1 + p2) / 2       *)
(* Pitches and differences are exact rationals, kept as mixed numbers      *)
(* [w, n, d] = w + n/d with 0 <= n < d and gcd(n, d) = 1.                  *)
(***************************************************************************)
EXTENDS Integers, Sequences, FiniteSets, TLC

\* ------------------------------------------------------------------ bounds
\* up/down responses explored, summed over the sessions of a behaviour
MaxAnswers == 2
\* consecutive replays of one trial
MaxReplays == 1
\* program runs in one behaviour
MaxSessions == 2
\* highest and lowest (negated) level of the long staircase
DeepHigh == 7075
DeepLow == 56
\* keys pressed at the terminal
MaxKeys == 2
\* samples in the buffer given to fade, and its fade length
MaxBuf == 8
MaxFade == 5

\* ------------------------------------------------------- program constants
\* DIFF = 20 (cents)
DIFF == 20
\* STEP = 0.9, held as STEP_NUM / STEP_DEN
STEP_NUM == 9
STEP_DEN == 10
\* FMIN = A1, the pitch origin; FMAX = C7 lies 63 semitones above A1
FMIN_CENTS == 0
FMAX_CENTS == 6300

\* -------------------------------------------------------- exact arithmetic
RECURSIVE GCD(_, _)
GCD(a, b) == IF b = 0 THEN a ELSE GCD(b, a % b)

RECURSIVE Pow(_, _)
Pow(b, e) == IF e = 0 THEN 1 ELSE b * Pow(b, e - 1)

\* w + n/d brought to normal form (d > 0, n any integer)
RNorm(w, n, d) ==
    LET q == n \div d
        r == n % d
        g == GCD(d, r)
    IN  IF r = 0 THEN [w |-> w + q, n |-> 0, d |-> 1]
        ELSE [w |-> w + q, n |-> r \div g, d |-> d \div g]

RInt(k) == [w |-> k, n |-> 0, d |-> 1]

RNeg(x) == IF x.n = 0 THEN RInt(-x.w) ELSE [w |-> -x.w - 1, n |-> x.d - x.n, d |-> x.d]

RAdd(x, y) == RNorm(x.w + y.w, x.n * y.d + y.n * x.d, x.d * y.d)

RDouble(x) == RNorm(2 * x.w, 2 * x.n, x.d)

RHalf(x) == RNorm(x.w \div 2, (x.w % 2) * x.d + x.n, 2 * x.d)

\* ------------------------------------------------------------ file system
\* A file name is a stem and an extension; "stats.npy" is the default store.
NONE == [stem |-> "none", ext |-> ""]
DEFAULT_STATS == [stem |-> "stats", ext |-> ".npy"]
BARE_STATS == [stem |-> "stats", ext |-> ""]

\* values of --stats explored
StoreNames == {NONE, DEFAULT_STATS, BARE_STATS}

\* numpy.save appends ".npy" to a file name that does not end with it
SaveName(name) == IF name.ext = ".npy" THEN name ELSE [name EXCEPT !.ext = ".npy"]

FileNames == StoreNames \cup {SaveName(n) : n \in StoreNames}

NoFile == [exists |-> FALSE, rows |-> <<>>]

\* os.path.exists
path_exists(files, name) == files[name].exists

\* -------------------------------------------------------------- log rows
\* A row is <<level, geometric-mean pitch, colour>>.  An appended tuple
\* carries a Python bool ("True"/"False").  numpy.array coerces the rows to
\* float64, which turns the bool into 1.0/0.0; a level is a small integer
\* and coerces exactly.
AsFloat(c) == IF c = "True" THEN "1.0" ELSE IF c = "False" THEN "0.0" ELSE c

np_array(rows) == [i \in 1..Len(rows) |-> <<rows[i][1], rows[i][2], AsFloat(rows[i][3])>>]

\* numpy.save(name, rows): writes the array to SaveName(name)
np_save(files, name, rows) ==
    [files EXCEPT ![SaveName(name)] = [exists |-> TRUE, rows |-> np_array(rows)]]

\* list(numpy.load(name)): raises when the file is missing
np_load(files, name) ==
    IF files[name].exists
    THEN [raised |-> FALSE, value |-> files[name].rows]
    ELSE [raised |-> TRUE, value |-> <<>>]

IsPrefix(s, t) == Len(s) <= Len(t) /\ \A i \in 1..Len(s) : s[i] = t[i]

\* ------------------------------------------------------------ the program
VARIABLES
    fs,          \* the directory: file name -> [exists, rows]
    session,     \* number of the running program run
    args_stats,  \* args.stats, the store name of this run
    pc,          \* where main is: "start", "play_f1", "play_f2", "get_key",
                 \* "report", "save", "exited", "crashed", "interrupted"
    stats,       \* the log of rows
    level,       \* staircase level
    diff,        \* difference in cents computed (and printed) by gen_tones
    f1, f2,      \* pitches of the current pair
    direction,   \* +1 when f2 is the higher tone, -1 when it is the lower
    key,         \* last value returned by get_key ("" before the first)
    \* history of this run
    loaded,      \* the log as loaded at start
    storeRead,   \* a store file was read at start
    nCorrect,    \* correct up/down responses
    nWrong,      \* incorrect up/down responses
    replays,     \* consecutive replays of the current pair
    shown,       \* level, log length and pair when the current pair was generated
    reportArg,   \* what report was called with: [called, rows]
    saveArg,     \* what numpy.save was called with: [called, rows]
    fs0,         \* the directory when this run started
    \* history of the run before
    prev,        \* [name, quit, final]: its store name, whether it was quit
                 \* with esc, and its log when it ended
    totalAnswers, \* up/down responses over all runs
    args_waveform, \* args.waveform
    events,      \* what the play calls did since the last key was returned
    discarded,   \* get_key has dropped a read in its present call
    \* the parts of the program studied by themselves
    stair,       \* a long staircase in float64: [level, f1, direction, diff, f2, nyquist]
    term,        \* the terminal and get_key byte by byte: [typed, inflight, pending, got]
    fadeSt       \* one call of fade: [pc, n, length, y]

\* the variables of a training session
mainVars == <<fs, session, args_stats, pc, stats, level, diff, f1, f2, direction, key,
              loaded, storeRead, nCorrect, nWrong, replays, shown, reportArg, saveArg,
              fs0, prev, totalAnswers, args_waveform, events>>

\* the variables of the parts studied by themselves
auxVars == <<stair, term, fadeSt>>

vars == <<mainVars, discarded, auxVars>>

\* values random.uniform(log FMIN, log FMAX) is drawn from, as pitches
F1Choices == {FMIN_CENTS, FMAX_CENTS}

\* DIFF * STEP ** lvl
Diff(lvl) ==
    IF lvl >= 0
    THEN RNorm(0, DIFF * Pow(STEP_NUM, lvl), Pow(STEP_DEN, lvl))
    ELSE RNorm(0, DIFF * Pow(STEP_DEN, -lvl), Pow(STEP_NUM, -lvl))

\* faulty variant of gen_tones: the difference ignores the level
gen_tones_NoDecay(lvl, u, r) ==
    LET d == Diff(0)
        dir == IF r THEN 1 ELSE -1
        p1 == RInt(u)
    IN  [diff |-> d, f1 |-> p1, direction |-> dir,
         f2 |-> RAdd(p1, IF dir = 1 THEN d ELSE RNeg(d))]

\* gen_tones(level) with the two random draws made explicit:
\* u is the pitch drawn for f1, r is random.random() < 0.5
gen_tones(lvl, u, r) ==
    LET d == Diff(lvl)
        dir == IF r THEN 1 ELSE -1
        p1 == RInt(u)
    IN  [diff |-> d, f1 |-> p1, direction |-> dir,
         f2 |-> RAdd(p1, IF dir = 1 THEN d ELSE RNeg(d))]

\* (f1 * f2) ** 0.5
GeoMean(p1, p2) == RHalf(RAdd(p1, p2))

\* faulty variant of LoadStats: the os.path.exists test is left out
LoadStats_NoExistsCheck(name, files) ==
    IF name # NONE
    THEN np_load(files, name)
    ELSE [raised |-> FALSE, value |-> <<>>]

\* stats = []; if args.stats != "none" and os.path.exists(args.stats): load it
LoadStats(name, files) ==
    IF name # NONE /\ path_exists(files, name)
    THEN np_load(files, name)
    ELSE [raised |-> FALSE, value |-> <<>>]

\* ans = 1 if key == "up" else -1
Ans(k) == IF k = "up" THEN 1 ELSE -1

\* faulty variant of UpdateLevel: the level is floored at 0
UpdateLevel_Floored(lvl, correct) ==
    IF correct THEN lvl + 1 ELSE IF lvl - 2 < 0 THEN 0 ELSE lvl - 2

\* the level after a response: level += 1 / level -= 2
UpdateLevel(lvl, correct) == IF correct THEN lvl + 1 ELSE lvl - 2

\* faulty variant of LogAfter: only correct responses are logged
LogAfter_OnlyCorrect(rows, lvl, p1, p2, correct) ==
    IF correct
    THEN Append(rows, <<lvl, RHalf(RAdd(p1, p2)), "True">>)
    ELSE rows

\* faulty variant of LogAfter: the row is built after the level has moved
LogAfter_NewLevel(rows, lvl, p1, p2, correct) ==
    IF correct
    THEN Append(rows, <<lvl + 1, RHalf(RAdd(p1, p2)), "True">>)
    ELSE Append(rows, <<lvl - 2, RHalf(RAdd(p1, p2)), "False">>)

\* faulty variant of LogAfter: the row is inserted at the front of the log
LogAfter_Prepend(rows, lvl, p1, p2, correct) ==
    IF correct
    THEN <<(<<lvl, RHalf(RAdd(p1, p2)), "True">>)>> \o rows
    ELSE <<(<<lvl, RHalf(RAdd(p1, p2)), "False">>)>> \o rows

\* the log after a response: stats.append((level, (f1 * f2) ** 0.5, True/False))
LogAfter(rows, lvl, p1, p2, correct) ==
    IF correct
    THEN Append(rows, <<lvl, GeoMean(p1, p2), "True">>)
    ELSE Append(rows, <<lvl, GeoMean(p1, p2), "False">>)

\* levels, freqs, colors = np.array(stats).T raises ValueError on an empty
\* log: the transposed array has shape (0,) and there is nothing to unpack
ReportRaises(rows) == Len(rows) = 0

NoCall == [called |-> FALSE, rows |-> <<>>]

\* --waveform choices=("square", "sawtooth", "triangle", "sine")
Waveforms == {"square", "sawtooth", "triangle", "sine"}

\* --waveform default
DEFAULT_WAVEFORM == "triangle"

\* sd.play(y, mapping=[1, 2]): the device starts sounding the tone
sd_play(ev, f) == Append(ev, [ev |-> "start", f |-> f])

\* sd.wait(): returns when the tone started last has been played to its end
sd_wait(ev) == Append(ev, [ev |-> "end", f |-> ev[Len(ev)].f])

\* faulty variant of play: sd.wait() is left out
play_NoWait(waveform, f, ev) ==
    IF waveform \in Waveforms
    THEN sd_play(ev, f)
    ELSE Append(ev, [ev |-> "unknown waveform type", f |-> f])

\* play(waveform, f): the match on waveform, then sd.play and sd.wait;
\* any other waveform prints "unknown waveform type" and returns
play(waveform, f, ev) ==
    IF waveform \in Waveforms
    THEN sd_wait(sd_play(ev, f))
    ELSE Append(ev, [ev |-> "unknown waveform type", f |-> f])

\* the byte strings get_key compares with
UP == <<"ESC", "[", "A">>
DOWN == <<"ESC", "[", "B">>
LEFT == <<"ESC", "[", "D">>
ESC == <<"ESC">>

\* get_key has returned nothing: it reads again
NoKey == ""

\* faulty variant of get_key: bytes it does not know are returned as they are
get_key_PassThrough(b) ==
    IF b = ESC THEN "esc"
    ELSE IF b = UP THEN "up"
    ELSE IF b = DOWN THEN "down"
    ELSE IF b = LEFT THEN "left"
    ELSE "other"

\* one round of the loop of get_key on the bytes b = os.read(stdin, 3)
get_key(b) ==
    IF b = ESC THEN "esc"
    ELSE IF b = UP THEN "up"
    ELSE IF b = DOWN THEN "down"
    ELSE IF b = LEFT THEN "left"
    ELSE NoKey

\* results of os.read(stdin, 3) explored in a training session: the four
\* known strings, end of input, a printable key, a cut and a merged sequence
SessionChunks ==
    {ESC, UP, DOWN, LEFT, <<>>, <<"x">>, <<"ESC", "[">>, <<"ESC", "ESC", "[">>}

\* the reads on which get_key returns sym (on which it reads again, for NoKey)
ChunksGiving(sym) == {b \in SessionChunks : get_key(b) = sym}

\* snapshot taken when a pair is generated
Snapshot(lvl, rows, t) ==
    [level |-> lvl, logLen |-> Len(rows), f1 |-> t.f1, f2 |-> t.f2, direction |-> t.direction]

NoPair == [level |-> 0, logLen |-> 0, f1 |-> RInt(0), f2 |-> RInt(0), direction |-> 1]

\* ------------------------------------------- gen_tones in float64, far levels
\* millionths of a binary order of magnitude
Micro == 1000000

\* log2(STEP) = log2(0.9) = -0.152003093..., between these two in millionths
LOG2_STEP_LO == -152004
LOG2_STEP_HI == -152003

\* log2(1200 / DIFF) = log2(60) = 5.906890595..., between these two
LOG2_60_LO == 5906890
LOG2_60_HI == 5906891

\* float64: a positive result below 2^-1075 is rounded to 0.0
F64_ZERO_BELOW == -1075

\* float64: 2 ** x is 1.0 for 0 <= x < 2^-53.48 (x * ln 2 < 2^-54, half the
\* gap below 1.0), and f1 * 2 ** x differs from f1 for x >= 2^-50
ROUNDS_TO_ONE_BELOW == -53480000
DISTINCT_FROM == -50000000

\* 2^5 <= FMIN = 55 Hz < 2^6, 2^11 <= FMAX = 2093 Hz < 2^12,
\* 2^14 <= SAMPLE_RATE / 2 = 24000 Hz < 2^15
Log2HzFloor(u) == IF u = FMIN_CENTS THEN 5 ELSE 11
NYQUIST_LOG2_FLOOR == 14

RECURSIVE Log2Ceil(_)
Log2Ceil(n) == IF n <= 1 THEN 0 ELSE 1 + Log2Ceil((n + 1) \div 2)

RECURSIVE Log2Floor(_)
Log2Floor(n) == IF n <= 1 THEN 0 ELSE 1 + Log2Floor(n \div 2)

\* bounds of log2(STEP ** lvl)
StepLog2Lo(lvl) == IF lvl >= 0 THEN lvl * LOG2_STEP_LO ELSE lvl * LOG2_STEP_HI
StepLog2Hi(lvl) == IF lvl >= 0 THEN lvl * LOG2_STEP_HI ELSE lvl * LOG2_STEP_LO

\* STEP ** lvl in float64: 0.0 once the power is below 2^-1075
StepPow(lvl) ==
    IF StepLog2Hi(lvl) < F64_ZERO_BELOW * Micro THEN "zero" ELSE "positive"

\* diff = DIFF * STEP ** lvl in float64
DiffF64(lvl) == StepPow(lvl)

\* bounds of log2(diff / 1200), the exponent of line 77 without its sign
ExpLog2Lo(lvl) == StepLog2Lo(lvl) - LOG2_60_HI
ExpLog2Hi(lvl) == StepLog2Hi(lvl) - LOG2_60_LO

\* how f2 = f1 * 2 ** (diff / 1200 * direction) stands to f1 in float64;
\* "within rounding of f1" where the bounds do not settle the rounding
F2Relation(lvl, dir) ==
    IF DiffF64(lvl) = "zero" \/ ExpLog2Hi(lvl) < ROUNDS_TO_ONE_BELOW THEN "equals f1"
    ELSE IF ExpLog2Lo(lvl) < DISTINCT_FROM THEN "within rounding of f1"
    ELSE IF dir = 1 THEN "above f1"
    ELSE "below f1"

\* where f2 lies: f1 * 2 ** x is at or above the Nyquist frequency when x is
\* no less than a power of two that bridges the orders of magnitude between
\* them, and below it when x is no more than one that fits in between;
\* "about Nyquist" where the bounds do not settle it
F2Band(lvl, u, dir) ==
    LET far == Log2Ceil(NYQUIST_LOG2_FLOOR + 1 - Log2HzFloor(u))
        near == Log2Floor(NYQUIST_LOG2_FLOOR - Log2HzFloor(u) - 1)
    IN  IF dir = -1 THEN "below Nyquist"
        ELSE IF ExpLog2Lo(lvl) >= far * Micro THEN "Nyquist or above"
        ELSE IF ExpLog2Hi(lvl) <= near * Micro THEN "below Nyquist"
        ELSE "about Nyquist"

\* gen_tones(level) in float64: every pair it may return, over the two
\* random draws, as [level, f1, direction, diff, f2, band]
gen_tones_f64(lvl) ==
    {[level |-> lvl, f1 |-> u, direction |-> dir, diff |-> DiffF64(lvl),
      f2 |-> F2Relation(lvl, dir), band |-> F2Band(lvl, u, dir)] :
        u \in F1Choices, dir \in {1, -1}}

\* the staircase is not being studied
StairIdle ==
    [level |-> 0, f1 |-> FMIN_CENTS, direction |-> 1, diff |-> "positive", f2 |-> "above f1",
     band |-> "below Nyquist"]

\* --------------------------------------------- the terminal, byte by byte
Keys == {"esc", "up", "down", "left"}

\* the bytes the terminal sends for a keypress
KeyBytes(k) ==
    IF k = "esc" THEN ESC
    ELSE IF k = "up" THEN UP
    ELSE IF k = "down" THEN DOWN
    ELSE LEFT

\* os.read(sys.stdin.fileno(), 3)
READ_SIZE == 3

\* os.read(fd, n) on the bytes that wait: at most n of them, from the front
os_read(buf, n) == SubSeq(buf, 1, IF Len(buf) < n THEN Len(buf) ELSE n)

\* what the read leaves waiting
after_read(buf, n) == SubSeq(buf, Len(os_read(buf, n)) + 1, Len(buf))

TermIdle == [typed |-> <<>>, inflight |-> <<>>, pending |-> <<>>, got |-> <<>>]

\* ------------------------------------------------------------------- fade
\* np.linspace(a, b, k) for a, b in {0, 1}: its k values, as numerators
\* over LinDen(k)
linspace(a, b, k) ==
    [j \in 1..k |-> IF k = 1 THEN a ELSE a * (k - 1) + (b - a) * (j - 1)]

LinDen(k) == IF k > 1 THEN k - 1 ELSE 1

\* a sample of amplitude 1, scaled so that both ramps stay whole numbers
Unit(k) == LinDen(k) * LinDen(k)

\* y[:k]: the first k samples, or all when there are fewer
SliceTo(y, k) == SubSeq(y, 1, IF Len(y) < k THEN Len(y) ELSE k)

\* first index of y[-k:]: the last k samples, all when there are fewer,
\* and all as well for k = 0, since y[-0:] is y[0:]
TailFrom(y, k) == IF k = 0 \/ Len(y) < k THEN 1 ELSE Len(y) - k + 1

\* numpy refuses slice *= ramp unless the ramp has the length of the slice
\* or length 1
Broadcasts(m, k) == k = m \/ k = 1

\* y[from : from + m] *= ramp, in place
imul(y, from, m, ramp, den) ==
    [i \in 1..Len(y) |->
        IF i >= from /\ i < from + m
        THEN (y[i] * ramp[IF Len(ramp) = 1 THEN 1 ELSE i - from + 1]) \div den
        ELSE y[i]]

\* line 40: y[:length] *= np.linspace(0, 1, length)
fade_in(y, length) ==
    LET m == Len(SliceTo(y, length))
    IN  IF Broadcasts(m, length)
        THEN [raised |-> FALSE, y |-> imul(y, 1, m, linspace(0, 1, length), LinDen(length))]
        ELSE [raised |-> TRUE, y |-> y]

\* line 41: y[-length:] *= np.linspace(1, 0, length)
fade_out(y, length) ==
    LET from == TailFrom(y, length)
        m == Len(y) - from + 1
    IN  IF Broadcasts(m, length)
        THEN [raised |-> FALSE, y |-> imul(y, from, m, linspace(1, 0, length), LinDen(length))]
        ELSE [raised |-> TRUE, y |-> y]

\* a buffer of n samples of amplitude 1, for a fade of the given length
Buffer(n, length) == [i \in 1..n |-> Unit(length)]

FadeIdle == [pc |-> "idle", n |-> 0, length |-> 0, y |-> <<>>]

\* nothing but the training session is running
AuxIdle ==
    /\ stair = StairIdle
    /\ term = TermIdle
    /\ fadeSt = FadeIdle

MainInit ==
    /\ fs = [n \in FileNames |-> NoFile]
    /\ session = 1
    /\ args_stats \in StoreNames
    /\ pc = "start"
    /\ stats = <<>>
    /\ level = 0
    /\ diff = RInt(0)
    /\ f1 = RInt(0)
    /\ f2 = RInt(0)
    /\ direction = 1
    /\ key = ""
    /\ loaded = <<>>
    /\ storeRead = FALSE
    /\ nCorrect = 0
    /\ nWrong = 0
    /\ replays = 0
    /\ shown = NoPair
    /\ reportArg = NoCall
    /\ saveArg = NoCall
    /\ fs0 = fs
    /\ prev = [name |-> NONE, quit |-> FALSE, final |-> <<>>]
    /\ totalAnswers = 0
    /\ events = <<>>
    /\ discarded = FALSE

\* a run from the command line: argparse admits the four waveforms only;
\* the runs explored use the default
Init ==
    /\ MainInit
    /\ args_waveform = DEFAULT_WAVEFORM
    /\ AuxIdle

\* main from the load of the log to the first gen_tones
Start ==
    /\ pc = "start"
    /\ LET ld == LoadStats(args_stats, fs)
       IN  IF ld.raised
           THEN /\ pc' = "crashed"
                /\ UNCHANGED <<stats, level, diff, f1, f2, direction, loaded, storeRead,
                               shown, events>>
           ELSE \E u \in F1Choices, r \in BOOLEAN :
                  LET t == gen_tones(0, u, r)
                  IN  /\ stats' = ld.value
                      /\ loaded' = ld.value
                      /\ storeRead' = (args_stats # NONE /\ path_exists(fs, args_stats))
                      /\ level' = 0
                      /\ diff' = t.diff
                      /\ f1' = t.f1
                      /\ f2' = t.f2
                      /\ direction' = t.direction
                      /\ shown' = Snapshot(0, ld.value, t)
                      /\ events' = <<>>
                      /\ pc' = "play_f1"
    /\ UNCHANGED <<fs, session, args_stats, key, nCorrect, nWrong, replays,
                   reportArg, saveArg, fs0, prev, totalAnswers, args_waveform>>
    /\ UNCHANGED discarded
    /\ UNCHANGED auxVars

\* play(args.waveform, f1, pan=args.pan): blocks until the tone has played
PlayF1 ==
    /\ pc = "play_f1"
    /\ events' = play(args_waveform, f1, events)
    /\ pc' = "play_f2"
    /\ UNCHANGED <<fs, session, args_stats, stats, level, diff, f1, f2, direction, key,
                   loaded, storeRead, nCorrect, nWrong, replays, shown, reportArg, saveArg,
                   fs0, prev, totalAnswers, args_waveform>>
    /\ UNCHANGED discarded
    /\ UNCHANGED auxVars

\* play(args.waveform, f2, pan=args.pan)
PlayF2 ==
    /\ pc = "play_f2"
    /\ events' = play(args_waveform, f2, events)
    /\ pc' = "get_key"
    /\ UNCHANGED <<fs, session, args_stats, stats, level, diff, f1, f2, direction, key,
                   loaded, storeRead, nCorrect, nWrong, replays, shown, reportArg, saveArg,
                   fs0, prev, totalAnswers, args_waveform>>
    /\ UNCHANGED discarded
    /\ UNCHANGED auxVars

\* get_key returns "esc": break, print "stopping", stty sane
KeyEsc ==
    /\ pc = "get_key"
    /\ ChunksGiving("esc") # {}
    /\ key' = "esc"
    /\ pc' = "report"
    /\ UNCHANGED <<fs, session, args_stats, stats, level, diff, f1, f2, direction,
                   loaded, storeRead, nCorrect, nWrong, replays, shown, reportArg, saveArg,
                   fs0, prev, totalAnswers, args_waveform, events>>
    /\ discarded' = FALSE
    /\ UNCHANGED auxVars

\* get_key reads bytes it does not know and reads again: main sees nothing
KeyIgnored ==
    /\ pc = "get_key"
    /\ ChunksGiving(NoKey) # {}
    /\ discarded' = TRUE
    /\ UNCHANGED mainVars
    /\ UNCHANGED auxVars

\* faulty variant of KeyLeft: "left" falls through to gen_tones
KeyLeft_NewPair ==
    /\ pc = "get_key"
    /\ replays < MaxReplays
    /\ key' = "left"
    /\ pc' = "play_f1"
    /\ replays' = replays + 1
    /\ \E u \in F1Choices, r \in BOOLEAN :
         LET t == gen_tones(level, u, r)
         IN  /\ diff' = t.diff
             /\ f1' = t.f1
             /\ f2' = t.f2
             /\ direction' = t.direction
    /\ events' = <<>>
    /\ UNCHANGED <<fs, session, args_stats, stats, level,
                   loaded, storeRead, nCorrect, nWrong, shown, reportArg, saveArg,
                   fs0, prev, totalAnswers, args_waveform>>
    /\ discarded' = FALSE
    /\ UNCHANGED auxVars

\* get_key returns "left": continue, the same pair is played again
KeyLeft ==
    /\ pc = "get_key"
    /\ replays < MaxReplays
    /\ ChunksGiving("left") # {}
    /\ key' = "left"
    /\ pc' = "play_f1"
    /\ replays' = replays + 1
    /\ events' = <<>>
    /\ UNCHANGED <<fs, session, args_stats, stats, level, diff, f1, f2, direction,
                   loaded, storeRead, nCorrect, nWrong, shown, reportArg, saveArg,
                   fs0, prev, totalAnswers, args_waveform>>
    /\ discarded' = FALSE
    /\ UNCHANGED auxVars

\* faulty variant of KeyAnswer: the log is saved after every response
KeyAnswer_SavesEachRow ==
    /\ pc = "get_key"
    /\ totalAnswers < MaxAnswers
    /\ \E b \in SessionChunks, u \in F1Choices, r \in BOOLEAN :
         LET k == get_key(b)
             correct == (Ans(k) = direction)
             lvl == UpdateLevel(level, correct)
             t == gen_tones(lvl, u, r)
         IN  /\ k \notin {NoKey, "esc", "left"}
             /\ key' = k
             /\ stats' = LogAfter(stats, level, f1, f2, correct)
             /\ level' = lvl
             /\ nCorrect' = IF correct THEN nCorrect + 1 ELSE nCorrect
             /\ nWrong' = IF correct THEN nWrong ELSE nWrong + 1
             /\ diff' = t.diff
             /\ f1' = t.f1
             /\ f2' = t.f2
             /\ direction' = t.direction
             /\ shown' = Snapshot(lvl, stats', t)
    /\ totalAnswers' = totalAnswers + 1
    /\ replays' = 0
    /\ events' = <<>>
    /\ pc' = "play_f1"
    /\ fs' = np_save(fs, args_stats, stats')
    /\ UNCHANGED <<session, args_stats, loaded, storeRead, reportArg, saveArg,
                   fs0, prev, args_waveform>>
    /\ discarded' = FALSE
    /\ UNCHANGED auxVars

\* get_key returns anything but "esc" and "left" ("up" or "down"): log the
\* row, move the level, next pair
KeyAnswer ==
    /\ pc = "get_key"
    /\ totalAnswers < MaxAnswers
    /\ \E b \in SessionChunks, u \in F1Choices, r \in BOOLEAN :
         LET k == get_key(b)
             correct == (Ans(k) = direction)
             lvl == UpdateLevel(level, correct)
             t == gen_tones(lvl, u, r)
         IN  /\ k \notin {NoKey, "esc", "left"}
             /\ key' = k
             /\ stats' = LogAfter(stats, level, f1, f2, correct)
             /\ level' = lvl
             /\ nCorrect' = IF correct THEN nCorrect + 1 ELSE nCorrect
             /\ nWrong' = IF correct THEN nWrong ELSE nWrong + 1
             /\ diff' = t.diff
             /\ f1' = t.f1
             /\ f2' = t.f2
             /\ direction' = t.direction
             /\ shown' = Snapshot(lvl, stats', t)
    /\ totalAnswers' = totalAnswers + 1
    /\ replays' = 0
    /\ events' = <<>>
    /\ pc' = "play_f1"
    /\ UNCHANGED <<fs, session, args_stats, loaded, storeRead, reportArg, saveArg,
                   fs0, prev, args_waveform>>
    /\ discarded' = FALSE
    /\ UNCHANGED auxVars

\* faulty variant of Report: report is called inside the loop, which goes on
Report_InLoop ==
    /\ pc = "report"
    /\ reportArg' = [called |-> TRUE, rows |-> stats]
    /\ pc' = IF ReportRaises(stats) THEN "crashed" ELSE "play_f1"
    /\ UNCHANGED <<fs, session, args_stats, stats, level, diff, f1, f2, direction, key,
                   loaded, storeRead, nCorrect, nWrong, replays, shown, saveArg, fs0, prev,
                   totalAnswers, args_waveform>>
    /\ events' = <<>>
    /\ UNCHANGED discarded
    /\ UNCHANGED auxVars

\* report(stats): builds the series and shows the plot, or raises
Report ==
    /\ pc = "report"
    /\ reportArg' = [called |-> TRUE, rows |-> stats]
    /\ pc' = IF ReportRaises(stats) THEN "crashed" ELSE "save"
    /\ UNCHANGED <<fs, session, args_stats, stats, level, diff, f1, f2, direction, key,
                   loaded, storeRead, nCorrect, nWrong, replays, shown, saveArg, fs0, prev,
                   totalAnswers, args_waveform, events>>
    /\ UNCHANGED discarded
    /\ UNCHANGED auxVars

\* np.save(args.stats, stats), then main returns
Save ==
    /\ pc = "save"
    /\ saveArg' = [called |-> TRUE, rows |-> stats]
    /\ fs' = np_save(fs, args_stats, stats)
    /\ pc' = "exited"
    /\ UNCHANGED <<session, args_stats, stats, level, diff, f1, f2, direction, key,
                   loaded, storeRead, nCorrect, nWrong, replays, shown, reportArg, fs0, prev,
                   totalAnswers, args_waveform, events>>
    /\ UNCHANGED discarded
    /\ UNCHANGED auxVars

\* the run is ended from outside before np.save is called: ctrl-c
\* (KeyboardInterrupt), or an exception out of sd.play or the plot.  The
\* process is gone and its memory with it; the directory stays.  What a
\* later run finds is the directory of fs0, with which runs already start.
Interrupt ==
    /\ pc \in {"start", "play_f1", "play_f2", "get_key", "report"}
    /\ pc' = "interrupted"
    /\ stats' = <<>>
    /\ level' = 0
    /\ diff' = RInt(0)
    /\ f1' = RInt(0)
    /\ f2' = RInt(0)
    /\ direction' = 1
    /\ key' = ""
    /\ loaded' = <<>>
    /\ nCorrect' = 0
    /\ nWrong' = 0
    /\ replays' = 0
    /\ shown' = NoPair
    /\ events' = <<>>
    /\ UNCHANGED <<fs, session, args_stats, storeRead, reportArg, saveArg,
                   fs0, prev, totalAnswers, args_waveform>>
    /\ discarded' = FALSE
    /\ UNCHANGED auxVars

\* the program is run again, with any store name, on the directory as left
NewSession ==
    /\ pc \in {"exited", "crashed"}
    /\ session < MaxSessions
    /\ session' = session + 1
    /\ args_stats' \in StoreNames
    /\ prev' = [name |-> args_stats, quit |-> (key = "esc"), final |-> stats]
    /\ pc' = "start"
    /\ stats' = <<>>
    /\ level' = 0
    /\ diff' = RInt(0)
    /\ f1' = RInt(0)
    /\ f2' = RInt(0)
    /\ direction' = 1
    /\ key' = ""
    /\ loaded' = <<>>
    /\ storeRead' = FALSE
    /\ nCorrect' = 0
    /\ nWrong' = 0
    /\ replays' = 0
    /\ shown' = NoPair
    /\ reportArg' = NoCall
    /\ saveArg' = NoCall
    /\ fs0' = fs
    /\ events' = <<>>
    /\ UNCHANGED <<fs, totalAnswers, args_waveform>>
    /\ discarded' = FALSE
    /\ UNCHANGED auxVars

Next ==
    \/ Start
    \/ PlayF1
    \/ PlayF2
    \/ KeyEsc
    \/ KeyIgnored
    \/ KeyLeft
    \/ KeyAnswer
    \/ Report
    \/ Save
    \/ NewSession

Spec == Init /\ [][Next]_vars

\* training sessions that may also be ended from outside
NextInterrupt ==
    \/ Next
    \/ Interrupt

SpecInterrupt == Init /\ [][NextInterrupt]_vars

\* main's body and play taken by themselves, entered with any string for
\* args.waveform: the argparse choices of the command line are not in front
InitAnyWaveform ==
    /\ MainInit
    /\ args_waveform \in {DEFAULT_WAVEFORM, "noise"}
    /\ AuxIdle

SpecAnyWaveform == InitAnyWaveform /\ [][Next]_vars

\* the training session stands at its start while a part is studied
SessionIdle ==
    /\ MainInit
    /\ args_stats = DEFAULT_STATS
    /\ args_waveform = DEFAULT_WAVEFORM

\* ---- the staircase over many trials: level and gen_tones alone
StairInit ==
    /\ SessionIdle
    /\ stair \in gen_tones_f64(0)
    /\ term = TermIdle
    /\ fadeSt = FadeIdle

\* a correct response: level += 1, then gen_tones(level)
StairHit ==
    /\ stair.level < DeepHigh
    /\ stair' \in gen_tones_f64(stair.level + 1)
    /\ UNCHANGED <<mainVars, discarded, term, fadeSt>>

\* an incorrect response: level -= 2, then gen_tones(level)
StairMiss ==
    /\ stair.level - 2 >= -DeepLow
    /\ stair' \in gen_tones_f64(stair.level - 2)
    /\ UNCHANGED <<mainVars, discarded, term, fadeSt>>

StairNext ==
    \/ StairHit
    \/ StairMiss

StairSpec == StairInit /\ [][StairNext]_vars

\* ---- the terminal and get_key alone
KeyInit ==
    /\ SessionIdle
    /\ stair = StairIdle
    /\ term = TermIdle
    /\ fadeSt = FadeIdle

\* a key is pressed: the terminal sends its bytes, all at once or the first
\* j of them now and the others later
TermPress ==
    /\ Len(term.typed) < MaxKeys
    /\ term.inflight = <<>>
    /\ \E k \in Keys, j \in 1..READ_SIZE :
         /\ j <= Len(KeyBytes(k))
         /\ term' = [term EXCEPT !.typed = Append(@, k),
                                  !.pending = @ \o SubSeq(KeyBytes(k), 1, j),
                                  !.inflight = SubSeq(KeyBytes(k), j + 1, Len(KeyBytes(k)))]
    /\ UNCHANGED <<mainVars, discarded, stair, fadeSt>>

\* the bytes held back arrive
TermDeliver ==
    /\ term.inflight # <<>>
    /\ term' = [term EXCEPT !.pending = @ \o term.inflight, !.inflight = <<>>]
    /\ UNCHANGED <<mainVars, discarded, stair, fadeSt>>

\* one round of get_key: os.read returns as soon as bytes wait; a known
\* string is returned to main, which stops asking after "esc"
GetKeyRead ==
    /\ term.pending # <<>>
    /\ \A i \in 1..Len(term.got) : term.got[i] # "esc"
    /\ LET b == os_read(term.pending, READ_SIZE)
           k == get_key(b)
       IN  term' = [term EXCEPT !.pending = after_read(term.pending, READ_SIZE),
                                !.got = IF k = NoKey THEN @ ELSE Append(@, k)]
    /\ UNCHANGED <<mainVars, discarded, stair, fadeSt>>

KeyNext ==
    \/ TermPress
    \/ TermDeliver
    \/ GetKeyRead

KeySpec == KeyInit /\ [][KeyNext]_vars

\* ---- fade alone, on any short buffer and fade length
FadeInit ==
    /\ SessionIdle
    /\ stair = StairIdle
    /\ term = TermIdle
    /\ \E n \in 0..MaxBuf, length \in 0..MaxFade :
         fadeSt = [pc |-> "line40", n |-> n, length |-> length, y |-> Buffer(n, length)]

FadeLine40 ==
    /\ fadeSt.pc = "line40"
    /\ LET r == fade_in(fadeSt.y, fadeSt.length)
       IN  fadeSt' = [fadeSt EXCEPT !.pc = IF r.raised THEN "ValueError" ELSE "line41",
                                    !.y = r.y]
    /\ UNCHANGED <<mainVars, discarded, stair, term>>

FadeLine41 ==
    /\ fadeSt.pc = "line41"
    /\ LET r == fade_out(fadeSt.y, fadeSt.length)
       IN  fadeSt' = [fadeSt EXCEPT !.pc = IF r.raised THEN "ValueError" ELSE "returned",
                                    !.y = r.y]
    /\ UNCHANGED <<mainVars, discarded, stair, term>>

FadeNext ==
    \/ FadeLine40
    \/ FadeLine41

FadeSpec == FadeInit /\ [][FadeNext]_vars

InLoop == pc \in {"play_f1", "play_f2", "get_key"}

TypeOK ==
    /\ pc \in {"start", "play_f1", "play_f2", "get_key", "report", "save", "exited", "crashed",
              "interrupted"}
    /\ session \in 1..MaxSessions
    /\ args_stats \in StoreNames
    /\ direction \in {1, -1}
    /\ key \in {"", "esc", "up", "down", "left"}
    /\ level \in (-2 * MaxAnswers)..MaxAnswers
    /\ replays \in 0..MaxReplays
    /\ totalAnswers \in 0..MaxAnswers

\* ===================================================================== claims

\* get_key returns in this step
KeyReturned == pc = "get_key" /\ pc' # "get_key"

\* an up/down response is being taken in this step
AnswerStep == KeyReturned /\ key' \in {"up", "down"}

\* the response taken in this step names the true direction of the pair
AnsweredRight == (key' = "up" /\ direction = 1) \/ (key' = "down" /\ direction = -1)

LastRow == stats[Len(stats)]

\* C1: every up/down response moves level by exactly +1 when it is correct
\* and by exactly -2 when it is not, at every level, negative ones included;
\* nothing clamps the level.
C1_LevelStep ==
    [][AnswerStep => level' = level + (IF AnsweredRight THEN 1 ELSE -2)]_vars

\* a miss at a negative level has lowered the level by 2 again, and a hit at
\* a negative level is possible as well
C1_Witness ==
    \/ /\ level = -4
       /\ nWrong = 2
       /\ LastRow = <<-2, LastRow[2], "False">>
    \/ /\ level = -1
       /\ Len(stats) > 0
       /\ LastRow = <<-2, LastRow[2], "True">>

C3_OneRowPerAnswer == Len(stats) = Len(loaded) + nCorrect + nWrong

\* a run that loaded a log, took a response, replayed and was quit
C3_Witness ==
    /\ Len(loaded) >= 1
    /\ nCorrect + nWrong >= 1
    /\ nWrong >= 1
    /\ replays >= 1
    /\ key = "esc"
    /\ Len(stats) = 2

\* C4: the row appended for an up/down response has the level the pair was
\* generated at (the level before the update), the geometric mean of f1 and
\* f2 (in pitch: twice the centre is f1 + f2), and True exactly when the
\* response names the direction of the pair.
C4_RowDescribesTrial ==
    [][AnswerStep =>
        /\ Len(stats') = Len(stats) + 1
        /\ stats'[Len(stats')][1] = level
        /\ RDouble(stats'[Len(stats')][2]) = RAdd(f1, f2)
        /\ stats'[Len(stats')][3] = (IF AnsweredRight THEN "True" ELSE "False")]_vars

\* a miss logged at a negative level, whose centre is not a whole pitch
C4_Witness ==
    /\ key \in {"up", "down"}
    /\ Len(stats) > Len(loaded)
    /\ LastRow[1] < 0
    /\ LastRow[3] = "False"
    /\ LastRow[2].n # 0

\* C5: level is 0 when a run starts, whatever log was loaded, and is always
\* (correct responses) - 2 * (incorrect responses) of this run; the pair
\* awaiting a response was generated with DIFF * STEP ** level for the
\* current level: 20 at level 0, 18 at level 1, 14.58 at level 3.
C5_LevelAndDiff ==
    /\ level = nCorrect - 2 * nWrong
    /\ InLoop =>
         /\ diff = Diff(level)
         /\ level = 0 => diff = RInt(20)
         /\ level = 1 => diff = RInt(18)
         /\ level = 3 => diff = [w |-> 14, n |-> 29, d |-> 50]
         /\ level = -2 => diff = [w |-> 24, n |-> 56, d |-> 81]

\* a later run that loaded a log, started at 0 and is at level 1 with 18 cents
C5_Witness ==
    /\ session = 2
    /\ Len(loaded) >= 1
    /\ nCorrect = 1
    /\ level = 1
    /\ diff = RInt(18)
    /\ pc = "get_key"

\* C6: once the listener has quit with esc, the run has called report and
\* then called numpy.save by the time it ends, also with an empty log.
C6_QuitReachesPersistence ==
    (key = "esc" /\ pc \in {"exited", "crashed"}) => (reportArg.called /\ saveArg.called)

\* C7: with the store name "none" no store is read at start and no file is
\* created or written: the directory stays as it was when the run started.
C7_NoneIsNoOp == args_stats = NONE => (~storeRead /\ fs = fs0)

\* C8: for a store name other than "none", a run started with the store
\* name of the run before, which was quit, starts with the log that run
\* ended with, row for row (as the float array numpy stores).
C8_RoundTrip ==
    (session > 1 /\ pc # "start" /\ prev.quit /\ prev.name = args_stats /\ args_stats # NONE)
        => loaded = np_array(prev.final)

\* C9: when the store does not exist at start, the run starts with an
\* empty log, reads nothing and enters the trial loop: it can only stop
\* after the listener has quit.
C9_MissingStoreIsEmptyStart ==
    (pc # "start" /\ ~path_exists(fs0, args_stats)) =>
        /\ loaded = <<>>
        /\ ~storeRead
        /\ pc \in {"crashed", "exited", "report", "save"} => key = "esc"

\* a run on a missing default store that logged a row and ended normally
C9_Witness ==
    /\ args_stats = DEFAULT_STATS
    /\ ~path_exists(fs0, args_stats)
    /\ pc = "exited"
    /\ Len(stats) = 1
    /\ path_exists(fs, args_stats)

\* C10: the log is append-only: the loaded log is a prefix of the log in
\* every state, each step of a run keeps the log as a prefix of the next
\* log, and report and numpy.save are handed the log as it is.
C10_AppendOnly ==
    /\ [](/\ IsPrefix(loaded, stats)
          /\ reportArg.called => reportArg.rows = stats
          /\ saveArg.called => saveArg.rows = stats)
    /\ [][session' = session => IsPrefix(stats, stats')]_vars

\* a run that loaded a row, appended another and saved both
C10_Witness ==
    /\ Len(loaded) >= 1
    /\ Len(stats) > Len(loaded)
    /\ saveArg.called
    /\ stats[1] # stats[2]

HeardPair ==
    <<[ev |-> "start", f |-> shown.f1], [ev |-> "end", f |-> shown.f1],
      [ev |-> "start", f |-> shown.f2], [ev |-> "end", f |-> shown.f2]>>

\* C12: in every trial and every replay f1 is played to its end before f2
\* starts, a key is asked for only when f2 has ended, and the tones played
\* are those of the pair whose response is still awaited.
C12_PlaysInSequence ==
    /\ pc = "play_f1" => events = <<>>
    /\ pc = "play_f2" => events = SubSeq(HeardPair, 1, 2)
    /\ pc = "get_key" => events = HeardPair
    /\ InLoop => (f1 = shown.f1 /\ f2 = shown.f2)

\* a replayed pair of a later trial has been played in full
C12_Witness ==
    /\ pc = "get_key"
    /\ replays >= 1
    /\ nCorrect + nWrong >= 1
    /\ Len(events) = 4
    /\ events[2] = [ev |-> "end", f |-> f1]
    /\ events[3] = [ev |-> "start", f |-> f2]
    /\ f1 # f2

\* main has left the loop
Terminated == pc \in {"report", "save", "exited", "crashed"}

\* C13: once a run has left the loop on esc it stays out of it until it
\* ends: no pair is generated, no tone is played, no row is appended and
\* the level stays.
C13_NothingAfterQuit ==
    [][(Terminated /\ key = "esc" /\ session' = session) =>
        /\ Terminated'
        /\ key' = "esc"
        /\ level' = level
        /\ stats' = stats
        /\ diff' = diff
        /\ f1' = f1
        /\ f2' = f2
        /\ direction' = direction
        /\ shown' = shown
        /\ events' = events]_vars

\* a run that moved the level, was quit, reported and saved
C13_Witness ==
    /\ pc = "exited"
    /\ key = "esc"
    /\ level # 0
    /\ reportArg.called
    /\ saveArg.called

\* C14: at every level the staircase reaches, the difference
\* DIFF * STEP ** level that gen_tones computes is strictly positive.
C14_DiffPositive == stair.diff = "positive"

\* C15: at every level the staircase reaches, however low, f2 is not at or
\* above the Nyquist frequency, and direction is +1 or -1.
C15_TonesInBand ==
    /\ stair.band # "Nyquist or above"
    /\ stair.direction \in {1, -1}

\* C16: in every trial f2 is never equal to f1: it is above f1 when
\* direction = +1 and below it when direction = -1.
C16_IntervalFollowsDirection ==
    /\ stair.f2 # "equals f1"
    /\ stair.f2 = "above f1" => stair.direction = 1
    /\ stair.f2 = "below f1" => stair.direction = -1

\* C17: however the terminal delivers the bytes of the keys pressed, the
\* symbols get_key returns are the keys pressed, in their order, and when
\* every byte has been read none is missing but what follows an esc.
C17_EachKeyItsSymbol ==
    /\ IsPrefix(term.got, term.typed)
    /\ (term.pending = <<>> /\ term.inflight = <<>>) =>
          \/ term.got = term.typed
          \/ (term.got # <<>> /\ term.got[Len(term.got)] = "esc")

\* C18: get_key returns nothing but esc, up, down and left; a read it
\* does not know is dropped and changes nothing the session sees, and the
\* level and the log change only on an up or a down.
C18_OnlyFourSymbols ==
    /\ [](key \in Keys \cup {""})
    /\ [][(~discarded /\ discarded') =>
            UNCHANGED <<pc, key, level, stats, diff, f1, f2, direction, events, fs>>]_vars
    /\ [][((level' # level \/ stats' # stats) /\ session' = session /\ pc # "start") =>
            key' \in {"up", "down"}]_vars

\* a read has been dropped in a trial that follows a response, and the
\* pair, the level and the log are as they were when the pair was generated
C18_Witness ==
    /\ pc = "get_key"
    /\ discarded
    /\ nCorrect + nWrong >= 1
    /\ key \in {"up", "down"}
    /\ level = shown.level
    /\ Len(stats) = shown.logLen

\* C19: on a buffer shorter than twice the fade length, shorter than the
\* fade length included, fade does not raise and returns a buffer of the
\* same length.
C19_ShortBufferFaded ==
    fadeSt.n < 2 * fadeSt.length =>
        /\ fadeSt.pc # "ValueError"
        /\ fadeSt.pc = "returned" => Len(fadeSt.y) = fadeSt.n

\* C20: the store is as it was at the start of the run at every point
\* before np.save has returned, whether the run goes on, has crashed or
\* was interrupted; it is written only by np.save, once, after esc and
\* after report has returned.
C20_StoreWrittenOnlyAtQuit ==
    /\ [](pc # "exited" => fs = fs0)
    /\ [][fs' # fs =>
            /\ pc = "save"
            /\ pc' = "exited"
            /\ key = "esc"
            /\ reportArg.called
            /\ ~ReportRaises(reportArg.rows)
            /\ ~saveArg.called]_vars

\* a second run that read the store of the first, took a response and was
\* then interrupted: the store is as it found it
C20_Witness ==
    /\ pc = "interrupted"
    /\ session >= 2
    /\ storeRead
    /\ totalAnswers >= 2
    /\ fs = fs0
    /\ \E n \in FileNames : fs[n].exists

====
